---- MODULE Spec2Model ----
(***************************************************************************)
(* The tabular analysis core of data-analyser (src/tools): the loader, the *)
(* column validator, the schema inspector, the unique-value breakdown, the *)
(* dataset summary and the three statistics operations.                    *)
(*                                                                         *)
(* A behaviour is one call of a public operation on one source file: Init  *)
(* chooses the file, one action runs the whole operation and stores what   *)
(* the caller gets back (a table, a report, an error message, or an        *)
(* exception that left the operation).                                     *)
(*                                                                         *)
(* A second specification, SpecCallers, has two callers that run the       *)
(* operations on one source file in any interleaving: a call reads the     *)
(* file, then computes and returns. SpecTall runs the unique-value         *)
(* breakdown on columns of many distinct values, and SpecPlot runs          *)
(* correlation_heatmap (src/tools/visualization.py), whose plot files are   *)
(* the variable plots.                                                      *)
(*                                                                         *)
(* Numbers are exact: a float is a rational [t, n, d] or NaN or +inf, a    *)
(* standard deviation is carried by its square (the sample variance), and  *)
(* a percentage rounded to two decimals is an integer number of            *)
(* hundredths.                                                             *)
(***************************************************************************)
EXTENDS Integers, Sequences, FiniteSets, TLC

VARIABLES fs, result, callers, plots

vars == <<fs, result, callers, plots>>

\* ------------------------------------------------------------------ bounds
\* Most data rows of a file.
MaxRows == 3
\* Numeric cells range over -MaxVal..MaxVal.
MaxVal == 1
\* Most data rows of a file of two columns, and of a delimited-text file
\* whose first line holds a semicolon.
MaxWideRows == 2
\* Most data rows of a file two callers share.
MaxSharedRows == 1
\* Most data rows of a file correlation_heatmap is called on.
MaxPlotRows == 3
\* Most distinct values of the column of a tall file, and most further
\* occurrences of one of them.
MaxDistinct == 52
MaxRepeat == 1

\* Column names of the files, in declared order; a file has a prefix of them.
ColNames == <<"a", "b">>
\* A column name no file has.
AbsentName == "zz"
\* Text cell values: one of them holds a semicolon.
TextVals == {"A", "B;C"}
\* A column name that holds a semicolon, and its pieces.
SemiName == "a;x"
SemiNamePieces == <<"a", "x">>

\* ----------------------------------------------------------------- numbers
\* F applied to the value of v: v is evaluated once, whatever F does with it.
Let(v, F(_)) == CHOOSE r \in {F(x) : x \in {v}} : TRUE

Abs(x) == IF x < 0 THEN -x ELSE x

RECURSIVE GCD(_, _)
GCD(a, b) == IF b = 0 THEN a ELSE GCD(b, a % b)

\* The rational n/d (d # 0) in lowest terms with a positive denominator.
Frac(n, d) ==
  Let(<<n, d>>, LAMBDA p :
    Let(<<IF p[2] < 0 THEN -1 ELSE 1, GCD(Abs(p[1]), Abs(p[2]))>>, LAMBDA sg :
      [t |-> "num", n |-> (sg[1] * p[1]) \div sg[2],
                    d |-> (sg[1] * p[2]) \div sg[2]]))

NaN == [t |-> "nan", n |-> 0, d |-> 1]
PosInf == [t |-> "inf", n |-> 1, d |-> 1]
Zero == [t |-> "num", n |-> 0, d |-> 1]

IsNaN(x) == x.t = "nan"
IsNum(x) == x.t = "num"

\* IEEE comparisons: every comparison with NaN is false; +inf is above
\* every rational.
FLt(x, y) ==
  Let(<<x, y>>, LAMBDA p :
    CASE p[1].t = "nan" \/ p[2].t = "nan" -> FALSE
      [] p[1].t = "inf" -> FALSE
      [] p[2].t = "inf" -> TRUE
      [] OTHER -> p[1].n * p[2].d < p[2].n * p[1].d)
FGt(x, y) == FLt(y, x)
FEq(x, y) ==
  Let(<<x, y>>, LAMBDA p :
    CASE p[1].t = "nan" \/ p[2].t = "nan" -> FALSE
      [] p[1].t = "inf" \/ p[2].t = "inf" -> p[1].t = p[2].t
      [] OTHER -> p[1].n * p[2].d = p[2].n * p[1].d)
FNe(x, y) == ~FEq(x, y)
FSub(x, y) ==
  Let(<<x, y>>, LAMBDA p :
    IF p[1].t = "num" /\ p[2].t = "num"
    THEN Frac(p[1].n * p[2].d - p[2].n * p[1].d, p[1].d * p[2].d)
    ELSE NaN)
FAbs(x) == Let(x, LAMBDA v : IF v.t = "num" THEN Frac(Abs(v.n), v.d) ELSE v)

\* -------------------------------------------------------------- file model
\* A cell of a data row: missing, a number, text, or a boolean (True is 1,
\* False is 0).
NullCell == [k |-> "null", v |-> "", i |-> 0]
NumCell(i) == [k |-> "num", v |-> "", i |-> i]
TextCell(s) == [k |-> "text", v |-> s, i |-> 0]
BoolCell(b) == [k |-> "bool", v |-> "", i |-> b]

IsNull(c) == c.k = "null"

NumCells == {NullCell} \cup {NumCell(i) : i \in (-MaxVal)..MaxVal}
TextCells == {NullCell} \cup {TextCell(s) : s \in TextVals}
BoolCells == {NullCell, BoolCell(0), BoolCell(1)}

\* All sequences over S of length n.
SeqsOfLen(S, n) == [1..n -> S]

\* The cells of the first column: numbers, text or booleans, with gaps.
ColumnContents(n) ==
  SeqsOfLen(NumCells, n) \cup SeqsOfLen(TextCells, n) \cup SeqsOfLen(BoolCells, n)

\* A further column holds the same cell in every row.
FillerCells == {NullCell, NumCell(0), TextCell("A")}

\* Paths: a stem and what the path ends with.
Paths ==
  {<<"data", ".csv">>, <<"data", ".parquet">>, <<"data", ".txt">>,
   <<"data", ".csv", ".bak">>}

EndsWith(path, suffix) == path[Len(path)] = suffix

\* What the file system holds at the path.
\*   status: ok | missing | denied | malformed | empty (zero bytes)
\*   sep:    the field separator the file was written with (delimited text)
\*   cols:   the columns, each [name, decl, cells]; decl is the type the
\*           file's schema declares (columnar files), "" when it has none
NoContent == <<>>

Kinds(cells) == {cells[i].k : i \in DOMAIN cells}

\* The declared types a columnar file can give a column with these cells.
Decls(cells) ==
  IF "text" \in Kinds(cells) THEN {"object"}
  ELSE IF "bool" \in Kinds(cells)
  THEN (IF "null" \in Kinds(cells) THEN {"object"} ELSE {"bool"})
  ELSE IF "num" \in Kinds(cells) THEN {"float64"}
  ELSE {"float64", "object"}

\* The table with first column cs (declared d) and k columns in all, the
\* further ones filled with the cell more.
Table(cs, d, k, more, withDecl) ==
  <<[name |-> ColNames[1], decl |-> d, cells |-> cs]>>
  \o [j \in 1..(k - 1) |->
        [name |-> ColNames[j + 1],
         decl |-> IF withDecl
                  THEN (IF more.k = "text" THEN "object" ELSE "float64")
                  ELSE "",
         cells |-> [i \in DOMAIN cs |-> more]]]

\* The tables of one column.
NarrowTables(withDecl) ==
  UNION { UNION { { Table(cs, d, 1, NullCell, withDecl)
                      : d \in (IF withDecl THEN Decls(cs) ELSE {""}) }
                  : cs \in ColumnContents(n) }
          : n \in 0..MaxRows }

\* The tables of two and more columns.
WideTables(withDecl) ==
  UNION { UNION { { Table(cs, x[1], x[2], x[3], withDecl)
                      : x \in (IF withDecl THEN Decls(cs) ELSE {""})
                              \X (2..Len(ColNames)) \X FillerCells }
                  : cs \in ColumnContents(n) }
          : n \in 0..MaxWideRows }

Tables(withDecl) == NarrowTables(withDecl) \cup WideTables(withDecl)

\* The tables of at most MaxWideRows rows.
ShortTables(withDecl) ==
  {t \in Tables(withDecl) : Len(t[1].cells) <= MaxWideRows}

\* The table with its first column named with a semicolon.
WithSemiName(t) == [t EXCEPT ![1].name = SemiName]

Files ==
  \* comma-separated text, readable
  { [path |-> <<"data", ".csv">>, status |-> "ok", sep |-> ",", cols |-> t]
      : t \in Tables(FALSE) }
  \cup
  \* semicolon-separated text, readable
  { [path |-> <<"data", ".csv">>, status |-> "ok", sep |-> ";", cols |-> t]
      : t \in ShortTables(FALSE) }
  \cup
  \* comma-separated text whose first line holds a semicolon
  { [path |-> <<"data", ".csv">>, status |-> "ok", sep |-> ",",
     cols |-> WithSemiName(t)] : t \in ShortTables(FALSE) }
  \cup
  \* columnar, readable
  { [path |-> <<"data", ".parquet">>, status |-> "ok", sep |-> "", cols |-> t]
      : t \in Tables(TRUE) }
  \cup
  \* nothing readable at the path, or a path of another extension
  { [path |-> p, status |-> st, sep |-> "", cols |-> NoContent]
      : p \in Paths,
        st \in {"missing", "denied", "malformed", "empty"} }
  \cup
  { [path |-> p, status |-> "ok", sep |-> "", cols |-> NoContent]
      : p \in {<<"data", ".txt">>, <<"data", ".csv", ".bak">>} }

\* ------------------------------------------------------------------ loader
\* A line of a delimited-text file is a sequence of tokens: the cells as
\* written (a cell that holds a separator is quoted, so it stays one token)
\* and the separators between them.
SepToken(s) == [k |-> "sep", v |-> s, i |-> 0]

\* The fields (token sequences) joined by the separator.
RECURSIVE Join(_, _)
Join(fields, sep) ==
  IF Len(fields) = 0 THEN <<>>
  ELSE IF Len(fields) = 1 THEN fields[1]
  ELSE fields[1] \o <<SepToken(sep)>> \o Join(Tail(fields), sep)

\* A column name as written in the header line.
NameTokens(name) ==
  IF name = SemiName
  THEN <<TextCell(SemiNamePieces[1]), SepToken(";"), TextCell(SemiNamePieces[2])>>
  ELSE <<TextCell(name)>>

\* The first line of a delimited-text file: the column names joined by the
\* file's separator.
first_line(file) ==
  Join([j \in 1..Len(file.cols) |-> NameTokens(file.cols[j].name)], file.sep)

\* Data line i of a delimited-text file.
data_line(file, i) ==
  Join([j \in 1..Len(file.cols) |-> <<file.cols[j].cells[i]>>], file.sep)

\* ch in line: an unquoted separator character of the line.
Contains(line, ch) == \E i \in DOMAIN line : line[i] = SepToken(ch)

\* The separator load_dataset passes to read_csv: ';' if the first line
\* holds one, else the default ','.
detect_sep_comma_only(line) == ","

detect_sep(line) == IF Contains(line, ";") THEN ";" ELSE ","

\* The line split at the separator sep: the token sequences between its
\* occurrences.
RECURSIVE Split(_, _, _)
Split(line, sep, field) ==
  IF Len(line) = 0 THEN <<field>>
  ELSE IF line[1] = SepToken(sep)
  THEN <<field>> \o Split(Tail(line), sep, <<>>)
  ELSE Split(Tail(line), sep, Append(field, line[1]))

\* The text of a token as written.
TokenText(tok) ==
  CASE tok.k = "num" -> ToString(tok.i)
    [] tok.k = "bool" -> (IF tok.i = 1 THEN "True" ELSE "False")
    [] tok.k = "null" -> ""
    [] OTHER -> tok.v

RECURSIVE FieldText(_)
FieldText(field) ==
  IF Len(field) = 0 THEN "" ELSE TokenText(field[1]) \o FieldText(Tail(field))

\* The cell a field parses to: the cell written, or the text of a field
\* that holds a separator other than the one the line is split at.
FieldCell(field) ==
  IF Len(field) = 0 THEN NullCell
  ELSE IF Len(field) = 1 THEN field[1]
  ELSE TextCell(FieldText(field))

\* The type read_csv infers for a column from its cells.
InferDtype(cells) ==
  IF Len(cells) = 0 THEN "object"
  ELSE IF "text" \in Kinds(cells) THEN "object"
  ELSE IF "bool" \in Kinds(cells)
  THEN (IF "null" \in Kinds(cells) THEN "object" ELSE "bool")
  ELSE IF "null" \in Kinds(cells) THEN "float64"
  ELSE "int64"

\* What open() raises.
open_exc(file) ==
  CASE file.status = "missing" -> "FileNotFoundError"
    [] file.status = "denied" -> "PermissionError"
    [] OTHER -> "none"

\* The rows of a readable delimited-text file (no data line has more fields
\* than the first line).
row_count(file) == Len(file.cols[1].cells)

\* pd.read_csv with the given separator: the exception it raises, or the
\* table. The first line gives the column names; a data line with fewer
\* fields than names leaves the last columns missing.
read_csv(file, sep) ==
  CASE file.status = "missing" -> [exc |-> "FileNotFoundError", df |-> <<>>]
    [] file.status = "denied" -> [exc |-> "PermissionError", df |-> <<>>]
    [] file.status = "empty" -> [exc |-> "EmptyDataError", df |-> <<>>]
    [] file.status = "malformed" -> [exc |-> "ParserError", df |-> <<>>]
    [] OTHER ->
       Let(<<Split(first_line(file), sep, <<>>),
             [i \in 1..row_count(file) |-> Split(data_line(file, i), sep, <<>>)]>>,
           LAMBDA p :
         Let([j \in 1..Len(p[1]) |->
                [i \in 1..row_count(file) |->
                   IF j <= Len(p[2][i]) THEN FieldCell(p[2][i][j])
                   ELSE NullCell]], LAMBDA cells :
           [exc |-> "none",
            df |-> [j \in 1..Len(p[1]) |->
                      [name |-> FieldText(p[1][j]),
                       dtype |-> InferDtype(cells[j]),
                       cells |-> cells[j]]]]))

\* pd.read_parquet: the exception it raises, or the table with the types
\* the file's schema declares.
read_parquet(file) ==
  CASE file.status = "missing" -> [exc |-> "FileNotFoundError", df |-> <<>>]
    [] file.status = "denied" -> [exc |-> "PermissionError", df |-> <<>>]
    [] file.status \in {"empty", "malformed"} ->
         [exc |-> "ArrowInvalid", df |-> <<>>]
    [] OTHER ->
       [exc |-> "none",
        df |-> [j \in 1..Len(file.cols) |->
                  [name |-> file.cols[j].name,
                   dtype |-> file.cols[j].decl,
                   cells |-> file.cols[j].cells]]]

\* The calls on the file system made up to a parser call: the
\* delimited-text parser is called after open() and readline().
FileCalls(parser) ==
  IF parser = "read_csv" THEN <<"open", "read_csv">> ELSE <<parser>>

\* What a parser call gave: the table it returned or the exception it
\* raised. parser and sep record the parser called and the separator it
\* was given.
Parsed(r, parser, sep) ==
  IF r.exc # "none"
  THEN [kind |-> "raised", err |-> r.exc, df |-> <<>>,
        parser |-> parser, sep |-> sep, accessed |-> FileCalls(parser)]
  ELSE [kind |-> "table", err |-> "none", df |-> r.df,
        parser |-> parser, sep |-> sep, accessed |-> FileCalls(parser)]

\* load_dataset's try block with the delimited-text parser as the fallback
\* for every other extension.
load_try_csv_fallback(file) ==
  IF EndsWith(file.path, ".csv")
  THEN IF open_exc(file) # "none"
       THEN [kind |-> "raised", err |-> open_exc(file), df |-> <<>>,
             parser |-> "none", sep |-> "", accessed |-> <<"open">>]
       ELSE Let(detect_sep(first_line(file)), LAMBDA sep :
              Parsed(read_csv(file, sep), "read_csv", sep))
  ELSE IF EndsWith(file.path, ".parquet")
  THEN Parsed(read_parquet(file), "read_parquet", "")
  ELSE IF open_exc(file) # "none"
  THEN [kind |-> "raised", err |-> open_exc(file), df |-> <<>>,
        parser |-> "none", sep |-> "", accessed |-> <<"open">>]
  ELSE Parsed([exc |-> "ParserError", df |-> <<>>], "read_csv", ",")

\* load_dataset's try block opening the file before it looks at the ending
\* of the path.
load_try_open_first(file) ==
  IF open_exc(file) # "none"
  THEN [kind |-> "raised", err |-> open_exc(file), df |-> <<>>,
        parser |-> "none", sep |-> "", accessed |-> <<"open">>]
  ELSE IF EndsWith(file.path, ".csv")
  THEN Let(detect_sep(first_line(file)), LAMBDA sep :
         Parsed(read_csv(file, sep), "read_csv", sep))
  ELSE IF EndsWith(file.path, ".parquet")
  THEN Parsed(read_parquet(file), "read_parquet", "")
  ELSE [kind |-> "error", err |-> "UnsupportedFormat", df |-> <<>>,
        parser |-> "none", sep |-> "", accessed |-> <<"open">>]

\* The body of load_dataset's try block: the value it returns or the
\* exception it raises.
load_try(file) ==
  IF EndsWith(file.path, ".csv")
  THEN IF open_exc(file) # "none"
       THEN [kind |-> "raised", err |-> open_exc(file), df |-> <<>>,
             parser |-> "none", sep |-> "", accessed |-> <<"open">>]
       ELSE Let(detect_sep(first_line(file)), LAMBDA sep :
              Parsed(read_csv(file, sep), "read_csv", sep))
  ELSE IF EndsWith(file.path, ".parquet")
  THEN Parsed(read_parquet(file), "read_parquet", "")
  ELSE [kind |-> "error", err |-> "UnsupportedFormat", df |-> <<>>,
        parser |-> "none", sep |-> "", accessed |-> <<>>]

\* load_dataset with only its two specific except clauses: any other
\* exception leaves it.
load_dataset_no_catch_all(file) ==
  Let(load_try(file), LAMBDA r :
    IF r.kind # "raised" THEN r
    ELSE IF r.err = "FileNotFoundError"
    THEN [r EXCEPT !.kind = "error", !.err = "FileNotFound"]
    ELSE IF r.err = "PermissionError"
    THEN [r EXCEPT !.kind = "error", !.err = "PermissionDenied"]
    ELSE r)

\* load_dataset: the table, or the error message of the except clause
\* that catches what the try block raised.
load_dataset(file) ==
  Let(load_try(file), LAMBDA r :
    IF r.kind # "raised" THEN r
    ELSE IF r.err = "FileNotFoundError"
    THEN [r EXCEPT !.kind = "error", !.err = "FileNotFound"]
    ELSE IF r.err = "PermissionError"
    THEN [r EXCEPT !.kind = "error", !.err = "PermissionDenied"]
    ELSE [r EXCEPT !.kind = "error", !.err = "LoadError"])

\* --------------------------------------------------------------- validator
columns(df) == [j \in 1..Len(df) |-> df[j].name]

HasColumn(df, column_name) == \E j \in 1..Len(df) : df[j].name = column_name

Column(df, column_name) ==
  df[CHOOSE j \in 1..Len(df) : df[j].name = column_name]

\* validate_column_exists with a list of available columns cut after the
\* first name.
validate_column_exists_first_only(df, column_name) ==
  IF ~HasColumn(df, column_name)
  THEN [ok |-> FALSE, err |-> "ColumnNotFound",
        available |-> SubSeq(columns(df), 1, 1)]
  ELSE [ok |-> TRUE, err |-> "none", available |-> <<>>]

\* validate_column_exists: True, or the error with the available columns.
validate_column_exists(df, column_name) ==
  IF ~HasColumn(df, column_name)
  THEN [ok |-> FALSE, err |-> "ColumnNotFound", available |-> columns(df)]
  ELSE [ok |-> TRUE, err |-> "none", available |-> <<>>]

\* -------------------------------------------------------- schema inspector
null_count(col) == Cardinality({i \in DOMAIN col.cells : IsNull(col.cells[i])})

\* get_dataset_info.
get_dataset_info(df, file_path) ==
  [total_rows |-> IF Len(df) = 0 THEN 0 ELSE Len(df[1].cells),
   total_cols |-> Len(df),
   file_name |-> file_path,
   columns |-> columns(df),
   dtypes |-> [j \in 1..Len(df) |-> df[j].dtype],
   missing_counts |-> [j \in 1..Len(df) |-> null_count(df[j])]]

\* ----------------------------------------------------------------- results
NoResult == [op |-> "none", col |-> "", kind |-> "none", err |-> "none"]

ErrorResult(op, col, err) ==
  [op |-> op, col |-> col, kind |-> "error", err |-> err]

RaisedResult(op, col, exc) ==
  [op |-> op, col |-> col, kind |-> "raised", err |-> exc]

\* ------------------------------------------------------- statistics engine
\* pd.api.types.is_numeric_dtype: the integer, float and boolean types.
is_numeric_dtype(dtype) == dtype \in {"int64", "float64", "bool"}

\* The types select_dtypes(include=['number']) keeps: np.number has no
\* boolean.
is_number_dtype(dtype) == dtype \in {"int64", "float64"}

\* The non-missing values of a numeric column, in row order (every pandas
\* reduction skips the missing ones).
RECURSIVE Valid(_)
Valid(cells) ==
  IF Len(cells) = 0 THEN <<>>
  ELSE IF IsNull(cells[1]) THEN Valid(Tail(cells))
  ELSE <<cells[1].i>> \o Valid(Tail(cells))

RECURSIVE SumSeq(_)
SumSeq(xs) == IF Len(xs) = 0 THEN 0 ELSE xs[1] + SumSeq(Tail(xs))

\* x put in its place in the ascending sequence xs.
RECURSIVE Insert(_, _)
Insert(x, xs) ==
  IF Len(xs) = 0 THEN <<x>>
  ELSE IF x <= xs[1] THEN <<x>> \o xs
  ELSE <<xs[1]>> \o Insert(x, Tail(xs))

\* xs in ascending order.
RECURSIVE Sorted(_)
Sorted(xs) ==
  IF Len(xs) = 0 THEN <<>>
  ELSE Let(Sorted(Tail(xs)), LAMBDA s : Insert(xs[1], s))

\* Series.mean(): NaN over no value.
mean(xs) == IF Len(xs) = 0 THEN NaN ELSE Frac(SumSeq(xs), Len(xs))

\* Series.min() and Series.max(), of values in ascending order.
min(s) == IF Len(s) = 0 THEN NaN ELSE Frac(s[1], 1)
max(s) == IF Len(s) = 0 THEN NaN ELSE Frac(s[Len(s)], 1)

\* Series.quantile(qn/qd) of values in ascending order: linear
\* interpolation between the two nearest order statistics.
quantile(s, qn, qd) ==
  IF Len(s) = 0 THEN NaN
  ELSE Let(<<((Len(s) - 1) * qn) \div qd, ((Len(s) - 1) * qn) % qd>>,
           LAMBDA p :
             IF p[2] = 0 THEN Frac(s[p[1] + 1], 1)
             ELSE Frac(s[p[1] + 1] * qd + p[2] * (s[p[1] + 2] - s[p[1] + 1]),
                       qd))

\* Series.median().
median(s) == quantile(s, 1, 2)

\* n * (x - mean) for every x: the deviations, scaled to integers.
Dev(xs) ==
  Let(SumSeq(xs), LAMBDA sum : [i \in DOMAIN xs |-> Len(xs) * xs[i] - sum])

RECURSIVE SumPow(_, _)
SumPow(xs, p) ==
  IF Len(xs) = 0 THEN 0
  ELSE (IF p = 2 THEN xs[1] * xs[1]
        ELSE IF p = 3 THEN xs[1] * xs[1] * xs[1]
        ELSE xs[1] * xs[1] * xs[1] * xs[1])
       + SumPow(Tail(xs), p)

\* The sums of the 2nd, 3rd and 4th powers of the scaled deviations.
Moments(xs) ==
  Let(Dev(xs), LAMBDA d : <<0, SumPow(d, 2), SumPow(d, 3), SumPow(d, 4)>>)

\* Series.var(): the sample variance (ddof = 1), NaN below two values.
var(xs) ==
  IF Len(xs) < 2 THEN NaN
  ELSE Frac(Moments(xs)[2], Len(xs) * Len(xs) * (Len(xs) - 1))

\* Series.std() is the square root of var(); it is carried as its square.
std_squared(xs) == var(xs)

\* A standard deviation prints as 0.0000 when it rounds to no
\* ten-thousandth: std < 0.00005, i.e. std^2 * 4 * 10^8 < 1.
PrintsAsZero(v) ==
  /\ IsNum(v)
  /\ \/ v.n = 0
     \/ (v.n <= 5 /\ v.n * 400000000 < v.d)

\* A value carried as its sign and its square: sgn * sqrt(sq).
RootNaN == [t |-> "nan", sgn |-> 0, sq |-> NaN]
RootInf == [t |-> "inf", sgn |-> 1, sq |-> PosInf]
Root(sgn, sq) == [t |-> "num", sgn |-> sgn, sq |-> sq]

\* std / mean * 100 in float arithmetic, for a mean that may be 0: x / 0 is
\* +inf for x > 0 and NaN for x = 0.
std_over_mean(v, m) ==
  IF IsNaN(v) \/ IsNaN(m) THEN RootNaN
  ELSE IF m.n = 0 THEN (IF v.n = 0 THEN RootNaN ELSE RootInf)
  ELSE Root(IF v.n = 0 THEN 0 ELSE IF m.n > 0 THEN 1 ELSE -1,
            Frac(v.n * 10000 * m.d * m.d, v.d * m.n * m.n))

\* The coefficient of variation without the guard on the mean.
cv_unguarded(v, m) == std_over_mean(v, m)

\* cv = (std / mean) * 100 if mean != 0 else float('inf').
coefficient_of_variation(v, m) ==
  IF FNe(m, Zero) THEN std_over_mean(v, m) ELSE RootInf

\* |s| < cn/cd, s > cn/cd and s < -cn/cd for a value s carried as sign and
\* square.
RootAbsBelow(s, cn, cd) == s.t = "num" /\ s.sq.n * cd * cd < cn * cn * s.sq.d
RootAbove(s, cn, cd) ==
  s.t = "num" /\ s.sgn > 0 /\ s.sq.n * cd * cd > cn * cn * s.sq.d
RootBelowNeg(s, cn, cd) ==
  s.t = "num" /\ s.sgn < 0 /\ s.sq.n * cd * cd > cn * cn * s.sq.d

\* s < c for a threshold c > 0: false for NaN and +inf, true for every
\* s <= 0.
RootBelow(s, c) ==
  /\ s.t = "num"
  /\ \/ s.sgn <= 0
     \/ s.sq.n < c * c * s.sq.d

\* Series.skew(): NaN below three values, 0 when all values are equal,
\* else n * sqrt(n - 1) / (n - 2) * m3 / m2^1.5.
skew(xs) ==
  Let(<<Len(xs), Moments(xs)>>, LAMBDA p :
    IF p[1] < 3 THEN RootNaN
    ELSE IF p[2][2] = 0 THEN Root(0, Zero)
    ELSE Root(IF p[2][3] = 0 THEN 0 ELSE IF p[2][3] > 0 THEN 1 ELSE -1,
              Frac(p[1] * p[1] * (p[1] - 1) * p[2][3] * p[2][3],
                   (p[1] - 2) * (p[1] - 2) * p[2][2] * p[2][2] * p[2][2])))

\* Series.kurtosis(): NaN below four values, 0 when all values are equal,
\* else the bias-corrected excess kurtosis.
kurtosis(xs) ==
  Let(<<Len(xs), Moments(xs)>>, LAMBDA p :
    IF p[1] < 4 THEN NaN
    ELSE IF p[2][2] = 0 THEN Zero
    ELSE Frac(p[1] * (p[1] + 1) * (p[1] - 1) * p[2][4]
                - 3 * (p[1] - 1) * (p[1] - 1) * p[2][2] * p[2][2],
              (p[1] - 2) * (p[1] - 3) * p[2][2] * p[2][2]))

\* The entries of a sequence without repetition, in first-encountered order.
Dedup(xs) ==
  Let(xs, LAMBDA s :
    Let({i \in DOMAIN s : \A h \in 1..(i - 1) : s[h] # s[i]}, LAMBDA first :
      Let([i \in first |-> Cardinality({h \in first : h < i}) + 1],
          LAMBDA place :
        [j \in 1..Cardinality(first) |->
           s[CHOOSE i \in first : place[i] = j]])))

CountOf(xs, x) == Cardinality({i \in DOMAIN xs : xs[i] = x})

\* Series.mode() of values in ascending order: the most frequent values,
\* ascending; empty over no value.
mode(s) ==
  Let([i \in DOMAIN s |-> CountOf(s, s[i])], LAMBDA n :
    Dedup(SelectSeq(s, LAMBDA x : \A j \in DOMAIN s : CountOf(s, x) >= n[j])))

\* n/d rounded to the nearest integer, halves to the even one (d > 0).
RoundHalfEven(n, d) ==
  Let(<<n \div d, n % d>>, LAMBDA p :
    IF 2 * p[2] < d THEN p[1]
    ELSE IF 2 * p[2] > d THEN p[1] + 1
    ELSE IF p[1] % 2 = 0 THEN p[1] ELSE p[1] + 1)

\* count / total * 100 rounded to two decimals, in hundredths of a percent
\* (total > 0).
Percent(count, total) == RoundHalfEven(count * 10000, total)

\* The "missing values were excluded" insight written whether or not a
\* value is missing.
data_quality_insight_unguarded(nulls, total_rows) ==
  [line |-> TRUE, count |-> nulls, divisor |-> <<total_rows>>,
   pct |-> IF total_rows = 0 THEN 0 ELSE Percent(nulls, total_rows)]

\* The "missing values were excluded" insight of Mean, Standard deviation
\* and Skewness: written only if null_count > 0, and null_count / total_rows
\* is evaluated only then. divisor holds the divisor of each division made.
data_quality_insight(nulls, total_rows) ==
  IF nulls > 0
  THEN [line |-> TRUE, count |-> nulls, divisor |-> <<total_rows>>,
        pct |-> Percent(nulls, total_rows)]
  ELSE [line |-> FALSE, count |-> 0, divisor |-> <<>>, pct |-> 0]

\* Thresholds of the reports.
CvLow == 15
CvModerate == 35
GoodVariety == 10
ModerateVariety == 50
TopRows == 5

\* The checks every operation on a column starts with: load the file, then
\* look the column up. The error of the first check that fails, or the table.
load_and_validate(op, file, column_name) ==
  Let(load_dataset(file), LAMBDA l :
    IF l.kind = "raised"
    THEN [ok |-> FALSE, df |-> <<>>,
          res |-> RaisedResult(op, column_name, l.err)]
    ELSE IF l.kind = "error"
    THEN [ok |-> FALSE, df |-> <<>>,
          res |-> ErrorResult(op, column_name, l.err)]
    ELSE Let(validate_column_exists(l.df, column_name), LAMBDA v :
           IF ~v.ok
           THEN [ok |-> FALSE, df |-> l.df,
                 res |-> [op |-> op, col |-> column_name, kind |-> "error",
                          err |-> v.err, available |-> v.available]]
           ELSE [ok |-> TRUE, df |-> l.df, res |-> NoResult]))

\* valid_rows computed from the row count alone.
valid_row_count_all(total_rows, nulls) == total_rows

\* valid_rows = total_rows - null_count.
valid_row_count(total_rows, nulls) == total_rows - nulls

NotNumericResult(op, column_name, dtype) ==
  [op |-> op, col |-> column_name, kind |-> "error", err |-> "NotNumeric",
   dtype |-> dtype]

\* The distribution insight with the labels of a mean above and a mean
\* below the median exchanged.
distribution_label_exchanged(mean_value, median_value) ==
  IF FEq(mean_value, median_value) THEN "symmetric"
  ELSE IF FGt(mean_value, median_value) THEN "left-skewed"
  ELSE "right-skewed"

\* The distribution insight of the mean report: mean == median, else
\* mean > median, else the third label.
distribution_label(mean_value, median_value) ==
  IF FEq(mean_value, median_value) THEN "symmetric"
  ELSE IF FGt(mean_value, median_value) THEN "right-skewed"
  ELSE "left-skewed"

\* The report of calculate_column_mean on a column that passed the checks.
\* On a boolean column max() - min() subtracts two numpy booleans, which
\* raises TypeError (a boolean column has at least one row and no gap).
mean_report(info, col, column_name) ==
  IF col.dtype = "bool" THEN RaisedResult("mean", column_name, "TypeError")
  ELSE
  Let(<<Sorted(Valid(col.cells)), null_count(col), info.total_rows>>,
      LAMBDA a :
    Let(<<mean(a[1]), median(a[1]), min(a[1]), max(a[1])>>, LAMBDA st :
      [op |-> "mean", col |-> column_name, kind |-> "report", err |-> "none",
       total_rows |-> a[3],
       valid_rows |-> valid_row_count(a[3], a[2]),
       null_count |-> a[2],
       values_used |-> Len(a[1]),
       dtype |-> col.dtype,
       mean |-> st[1],
       minimum |-> st[3],
       maximum |-> st[4],
       range |-> FSub(st[4], st[3]),
       median |-> st[2],
       excluded_line |-> data_quality_insight(a[2], a[3]).line,
       excluded_count |-> data_quality_insight(a[2], a[3]).count,
       excluded_divisor |-> data_quality_insight(a[2], a[3]).divisor,
       excluded_pct |-> data_quality_insight(a[2], a[3]).pct,
       distribution |-> distribution_label(st[1], st[2]),
       p25 |-> quantile(a[1], 1, 4),
       p50 |-> quantile(a[1], 1, 2),
       p75 |-> quantile(a[1], 3, 4)]))

\* calculate_column_mean without the check that the column is numeric.
calculate_column_mean_unchecked(file, column_name) ==
  Let(load_and_validate("mean", file, column_name), LAMBDA c :
    IF ~c.ok THEN c.res
    ELSE Let(Column(c.df, column_name), LAMBDA col :
           mean_report(get_dataset_info(c.df, file.path), col, column_name)))

\* calculate_column_mean.
calculate_column_mean(file, column_name) ==
  Let(load_and_validate("mean", file, column_name), LAMBDA c :
    IF ~c.ok THEN c.res
    ELSE Let(Column(c.df, column_name), LAMBDA col :
           IF ~is_numeric_dtype(col.dtype)
           THEN NotNumericResult("mean", column_name, col.dtype)
           ELSE mean_report(get_dataset_info(c.df, file.path), col, column_name)))

\* The report of calculate_column_std on a column that passed the checks.
\* On a boolean column max() - min() raises TypeError, as in the mean.
std_report(info, col, column_name) ==
  IF col.dtype = "bool" THEN RaisedResult("std", column_name, "TypeError")
  ELSE
  Let(<<Sorted(Valid(col.cells)), null_count(col), info.total_rows>>,
      LAMBDA a :
    Let(<<std_squared(a[1]), mean(a[1]), min(a[1]), max(a[1]),
          quantile(a[1], 1, 4), quantile(a[1], 3, 4)>>, LAMBDA st :
      Let(<<coefficient_of_variation(st[1], st[2]), FSub(st[6], st[5])>>,
          LAMBDA d :
        [op |-> "std", col |-> column_name, kind |-> "report", err |-> "none",
         total_rows |-> a[3],
         valid_rows |-> valid_row_count(a[3], a[2]),
         null_count |-> a[2],
         values_used |-> Len(a[1]),
         dtype |-> col.dtype,
         std_squared |-> st[1],
         mean |-> st[2],
         cv |-> d[1],
         variance |-> var(a[1]),
         minimum |-> st[3],
         maximum |-> st[4],
         range |-> FSub(st[4], st[3]),
         excluded_line |-> data_quality_insight(a[2], a[3]).line,
         excluded_count |-> data_quality_insight(a[2], a[3]).count,
         excluded_divisor |-> data_quality_insight(a[2], a[3]).divisor,
         excluded_pct |-> data_quality_insight(a[2], a[3]).pct,
         variability |->
           IF RootBelow(d[1], CvLow) THEN "low"
           ELSE IF RootBelow(d[1], CvModerate) THEN "moderate"
           ELSE "high",
         p25 |-> st[5],
         p50 |-> quantile(a[1], 1, 2),
         p75 |-> st[6],
         iqr |-> d[2],
         \* std > iqr, both non-negative: compared by their squares
         spread |->
           IF IsNum(st[1]) /\ IsNum(d[2])
              /\ st[1].n * d[2].d * d[2].d > d[2].n * d[2].n * st[1].d
           THEN "potential outliers"
           ELSE "relatively normal"])))

\* calculate_column_std.
calculate_column_std(file, column_name) ==
  Let(load_and_validate("std", file, column_name), LAMBDA c :
    IF ~c.ok THEN c.res
    ELSE Let(Column(c.df, column_name), LAMBDA col :
           IF ~is_numeric_dtype(col.dtype)
           THEN NotNumericResult("std", column_name, col.dtype)
           ELSE std_report(get_dataset_info(c.df, file.path), col, column_name)))

\* The quartile-skewness interpretation with the two skew labels exchanged.
quartile_label_exchanged(quartile_skewness) ==
  IF FLt(FAbs(quartile_skewness), Frac(1, 10)) THEN "symmetric"
  ELSE IF FGt(quartile_skewness, Frac(1, 10)) THEN "left-skewed"
  ELSE "right-skewed"

\* The interpretation of the quartile skewness: abs(qs) < 0.1, else
\* qs > 0.1, else the last branch.
quartile_label(quartile_skewness) ==
  IF FLt(FAbs(quartile_skewness), Frac(1, 10)) THEN "symmetric"
  ELSE IF FGt(quartile_skewness, Frac(1, 10)) THEN "right-skewed"
  ELSE "left-skewed"

\* What Series.quantile does on a boolean column depends on the numpy
\* build: its linear interpolation subtracts the booleans and raises
\* TypeError, or (older builds) multiplies them by the weights and gives
\* floats.
BoolQuantile == {"TypeError", "interpolated"}

\* The report of analyze_column_skewness on a column that passed the checks.
skewness_report(info, col, column_name, bool_quantile) ==
  IF col.dtype = "bool" /\ bool_quantile = "TypeError"
  THEN RaisedResult("skewness", column_name, "TypeError")
  ELSE
  Let(<<Sorted(Valid(col.cells)), null_count(col), info.total_rows>>,
      LAMBDA a :
    Let(<<skew(a[1]), kurtosis(a[1]), mean(a[1]), median(a[1]),
          quantile(a[1], 1, 4), quantile(a[1], 1, 2), quantile(a[1], 3, 4),
          mode(a[1])>>, LAMBDA st :
      Let(FSub(FSub(st[7], st[6]), FSub(st[6], st[5])),
          LAMBDA quartile_skewness :
        [op |-> "skewness", col |-> column_name, kind |-> "report",
         err |-> "none",
         total_rows |-> a[3],
         valid_rows |-> valid_row_count(a[3], a[2]),
         null_count |-> a[2],
         values_used |-> Len(a[1]),
         dtype |-> col.dtype,
         skewness |-> st[1],
         kurtosis |-> st[2],
         mean |-> st[3],
         median |-> st[4],
         mode |-> IF Len(st[8]) > 0 THEN <<st[8][1]>> ELSE <<>>,
         skew_label |->
           IF RootAbsBelow(st[1], 1, 2) THEN "approximately symmetric"
           ELSE IF RootAbove(st[1], 1, 2) THEN "right-skewed"
           ELSE "left-skewed",
         kurtosis_label |->
           IF FLt(FAbs(st[2]), Frac(2, 1)) THEN "mesokurtic"
           ELSE IF FGt(st[2], Frac(2, 1)) THEN "leptokurtic"
           ELSE "platykurtic",
         mean_vs_median |->
           IF FLt(FAbs(FSub(st[3], st[4])), Frac(1, 100)) THEN "very close"
           ELSE IF FGt(st[3], st[4]) THEN "right skew"
           ELSE "left skew",
         p10 |-> quantile(a[1], 1, 10),
         p25 |-> st[5],
         p50 |-> st[6],
         p75 |-> st[7],
         p90 |-> quantile(a[1], 9, 10),
         quartile_skewness |-> quartile_skewness,
         quartile_label |-> quartile_label(quartile_skewness),
         excluded_line |-> data_quality_insight(a[2], a[3]).line,
         excluded_count |-> data_quality_insight(a[2], a[3]).count,
         excluded_divisor |-> data_quality_insight(a[2], a[3]).divisor,
         excluded_pct |-> data_quality_insight(a[2], a[3]).pct,
         tests |->
           IF RootAbsBelow(st[1], 1, 2) /\ FLt(FAbs(st[2]), Frac(2, 1))
           THEN "parametric" ELSE "non-parametric",
         transformation |->
           IF RootAbove(st[1], 1, 1) THEN "log or square root"
           ELSE IF RootBelowNeg(st[1], 1, 1) THEN "square"
           ELSE "none"])))

\* analyze_column_skewness with a minimum of one valid value.
analyze_column_skewness_guarded(file, column_name, bool_quantile) ==
  Let(load_and_validate("skewness", file, column_name), LAMBDA c :
    IF ~c.ok THEN c.res
    ELSE Let(Column(c.df, column_name), LAMBDA col :
           IF ~is_numeric_dtype(col.dtype)
           THEN NotNumericResult("skewness", column_name, col.dtype)
           ELSE IF Len(Valid(col.cells)) = 0
           THEN ErrorResult("skewness", column_name, "InsufficientData")
           ELSE skewness_report(get_dataset_info(c.df, file.path), col, column_name,
                                bool_quantile)))

\* analyze_column_skewness.
analyze_column_skewness(file, column_name, bool_quantile) ==
  Let(load_and_validate("skewness", file, column_name), LAMBDA c :
    IF ~c.ok THEN c.res
    ELSE Let(Column(c.df, column_name), LAMBDA col :
           IF ~is_numeric_dtype(col.dtype)
           THEN NotNumericResult("skewness", column_name, col.dtype)
           ELSE skewness_report(get_dataset_info(c.df, file.path), col, column_name,
                                bool_quantile)))

\* ---------------------------------------------------- categorical analyzer
\* The distinct entries of a sequence, in first-encountered order, each
\* with its number of occurrences.
Counts(cells) ==
  Let(Dedup(cells), LAMBDA d :
    [j \in DOMAIN d |->
       [value |-> d[j],
        count |-> Cardinality({i \in DOMAIN cells : cells[i] = d[j]})]])

\* value_counts sorts by count with the default sort kind, quicksort,
\* which numpy does not promise to be stable: the order it leaves rows of
\* equal count in depends on the build. Two outcomes stand for it: the
\* first-encountered order and its reverse.
TieOrders == {"first-encountered", "reversed"}

\* Row i comes before row j in descending order of count; rows of the
\* same count keep their order or take the reverse of it.
ComesBefore(rows, i, j, tie_order) ==
  \/ rows[i].count > rows[j].count
  \/ /\ rows[i].count = rows[j].count
     /\ IF tie_order = "first-encountered" THEN i < j ELSE i > j

\* Rows in descending order of count.
SortByCount(rows, tie_order) ==
  Let(rows, LAMBDA r :
    Let([j \in DOMAIN r |->
           Cardinality({i \in DOMAIN r : ComesBefore(r, i, j, tie_order)}) + 1],
        LAMBDA place :
      [p \in 1..Len(r) |-> r[CHOOSE j \in DOMAIN r : place[j] = p]]))

\* Series.value_counts(): the missing values are dropped (dropna=True is
\* the default), the others counted and sorted by descending count.
value_counts(cells, tie_order) ==
  Let(Counts(SelectSeq(cells, LAMBDA c : ~IsNull(c))), LAMBDA c :
    SortByCount(c, tie_order))

RECURSIVE SumPct(_, _)
SumPct(pct, j) == IF j = 0 THEN 0 ELSE pct[j] + SumPct(pct, j - 1)

\* The text of a value in the table.
display_value(value) ==
  IF IsNull(value) THEN "NULL/NaN"
  ELSE IF value.k = "num" THEN ToString(value.i)
  ELSE IF value.k = "bool" THEN (IF value.i = 1 THEN "True" ELSE "False")
  ELSE value.v

\* The variety label with the thresholds themselves excluded.
variety_label_strict(distinct) ==
  IF distinct < GoodVariety THEN "good variety"
  ELSE IF distinct < ModerateVariety THEN "moderate variety"
  ELSE "high variety"

\* The variety label of the distribution insight, from len(value_counts).
variety_label(distinct) ==
  IF distinct <= GoodVariety THEN "good variety"
  ELSE IF distinct <= ModerateVariety THEN "moderate variety"
  ELSE "high variety"

\* value_counts.head() enumerated from 1: the first TopRows rows (all of
\* them if there are fewer), each with its rank.
head_ranked(rows) ==
  [i \in 1..(IF Len(rows) < TopRows THEN Len(rows) ELSE TopRows) |->
     [rank |-> i,
      value |-> rows[i].value,
      display |-> display_value(rows[i].value),
      count |-> rows[i].count,
      pct |-> rows[i].pct]]

\* The "Top 5" table written from ten distinct values on.
top_table_from_ten(rows) ==
  IF Len(rows) >= GoodVariety THEN head_ranked(rows) ELSE <<>>

\* The "Top 5 Most Common Values" table: written only if there are more
\* than ten distinct values; <<>> stands for no table.
top_table(rows) ==
  IF Len(rows) > GoodVariety THEN head_ranked(rows) ELSE <<>>

\* analyze_column_unique_values.
analyze_column_unique_values(file, column_name, tie_order) ==
  Let(load_and_validate("unique", file, column_name), LAMBDA c :
    IF ~c.ok THEN c.res
    ELSE
    Let(Column(c.df, column_name), LAMBDA col :
    Let(<<value_counts(col.cells, tie_order),
          get_dataset_info(c.df, file.path).total_rows,
          null_count(col)>>, LAMBDA a :
    \* value_counts.index[0] on an empty index
    IF Len(a[1]) = 0 THEN RaisedResult("unique", column_name, "IndexError")
    ELSE
    Let([j \in DOMAIN a[1] |-> Percent(a[1][j].count, a[2])], LAMBDA pct :
    Let([j \in DOMAIN a[1] |->
           [value |-> a[1][j].value,
            display |-> display_value(a[1][j].value),
            count |-> a[1][j].count,
            pct |-> pct[j],
            cumulative |-> SumPct(pct, j)]], LAMBDA rows :
      [op |-> "unique", col |-> column_name, kind |-> "report",
       err |-> "none",
       total_rows |-> a[2],
       unique_values |-> Len(a[1]),
       dtype |-> col.dtype,
       rows |-> rows,
       most_common |-> rows[1],
       least_common |-> rows[Len(rows)],
       null_count |-> a[3],
       missing_line |-> IF a[3] > 0 THEN "count" ELSE "None",
       missing_pct |-> Percent(a[3], a[2]),
       variety |-> variety_label(Len(a[1])),
       top |-> top_table(rows)])))))

\* ---------------------------------------------------------- dataset summary
\* select_dtypes(include=['number']): the numeric columns, in table order.
numeric_cols(df) == SelectSeq(df, LAMBDA col : is_number_dtype(col.dtype))

\* One row of DataFrame.describe().
describe(col) ==
  Let(Sorted(Valid(col.cells)), LAMBDA s :
    [name |-> col.name, count |-> Len(s), mean |-> mean(s),
     std_squared |-> std_squared(s), minimum |-> min(s),
     p25 |-> quantile(s, 1, 4), p50 |-> quantile(s, 1, 2),
     p75 |-> quantile(s, 3, 4), maximum |-> max(s)])

\* dataset_summary.
dataset_summary(file) ==
  Let(load_dataset(file), LAMBDA l :
    IF l.kind = "raised" THEN RaisedResult("summary", "", l.err)
    ELSE IF l.kind = "error" THEN ErrorResult("summary", "", l.err)
    ELSE
    Let(<<get_dataset_info(l.df, file.path), numeric_cols(l.df)>>, LAMBDA a :
      \* missing_count / total_rows, both Python integers
      IF a[1].total_cols > 0 /\ a[1].total_rows = 0
      THEN RaisedResult("summary", "", "ZeroDivisionError")
      ELSE
      [op |-> "summary", col |-> "", kind |-> "report", err |-> "none",
       total_rows |-> a[1].total_rows,
       total_cols |-> a[1].total_cols,
       dtypes |-> [j \in 1..a[1].total_cols |->
                     [name |-> a[1].columns[j], dtype |-> a[1].dtypes[j]]],
       missing |-> [j \in 1..a[1].total_cols |->
                      [name |-> a[1].columns[j],
                       count |-> a[1].missing_counts[j],
                       pct |-> Percent(a[1].missing_counts[j],
                                       a[1].total_rows)]],
       numeric_section |-> Len(a[2]) > 0,
       numeric_stats |-> [j \in 1..Len(a[2]) |-> describe(a[2][j])],
       sample_rows |-> IF a[1].total_rows < TopRows THEN a[1].total_rows
                       ELSE TopRows]))

\* -------------------------------------------------------------- visualizer
\* The plot files written: none at the start.
NoPlots == {}

\* The rows at which both columns hold a value, in row order.
PairedRows(x, y) ==
  SelectSeq([i \in DOMAIN x.cells |-> i],
            LAMBDA i : ~IsNull(x.cells[i]) /\ ~IsNull(y.cells[i]))

\* One entry of DataFrame.corr() (Pearson, min_periods = 1), over the rows
\* at which both columns hold a value: NaN when there is no such row or one
\* of the columns has no variation over them, else
\* cov / sqrt(var_x * var_y), carried by its sign and its square.
corr(x, y) ==
  Let(PairedRows(x, y), LAMBDA rows :
    Let([n |-> Len(rows),
         sx |-> SumSeq([k \in DOMAIN rows |-> x.cells[rows[k]].i]),
         sy |-> SumSeq([k \in DOMAIN rows |-> y.cells[rows[k]].i]),
         sxx |-> SumSeq([k \in DOMAIN rows |->
                           x.cells[rows[k]].i * x.cells[rows[k]].i]),
         syy |-> SumSeq([k \in DOMAIN rows |->
                           y.cells[rows[k]].i * y.cells[rows[k]].i]),
         sxy |-> SumSeq([k \in DOMAIN rows |->
                           x.cells[rows[k]].i * y.cells[rows[k]].i])],
        LAMBDA s :
      Let(<<s.n * s.sxx - s.sx * s.sx, s.n * s.syy - s.sy * s.sy,
            s.n * s.sxy - s.sx * s.sy>>, LAMBDA m :
        IF m[1] = 0 \/ m[2] = 0 THEN RootNaN
        ELSE Root(IF m[3] = 0 THEN 0 ELSE IF m[3] > 0 THEN 1 ELSE -1,
                  Frac(m[3] * m[3], m[1] * m[2])))))

\* numerical_df.corr().
corr_matrix(numerical_df) ==
  [i \in DOMAIN numerical_df |->
     [j \in DOMAIN numerical_df |-> corr(numerical_df[i], numerical_df[j])]]

\* Series.nunique(): the distinct values, the missing ones left out.
nunique(col) ==
  Cardinality({col.cells[i] : i \in DOMAIN col.cells} \ {NullCell})

\* The pairs i < j of the matrix whose correlation is neither NaN nor 0,
\* row by row.
corr_pairs(numerical_df, matrix) ==
  Let(SelectSeq(
        [p \in 1..(Len(numerical_df) * Len(numerical_df)) |->
           <<((p - 1) \div Len(numerical_df)) + 1,
             ((p - 1) % Len(numerical_df)) + 1>>],
        LAMBDA ij : /\ ij[1] < ij[2]
                    /\ matrix[ij[1]][ij[2]].t = "num"
                    /\ matrix[ij[1]][ij[2]].sgn # 0), LAMBDA kept :
    [p \in DOMAIN kept |->
       [col1 |-> numerical_df[kept[p][1]].name,
        col2 |-> numerical_df[kept[p][2]].name,
        corr |-> matrix[kept[p][1]][kept[p][2]]]])

\* corr_pairs.sort(key=abs, reverse=True), a stable sort: the pairs by
\* descending absolute correlation, equal ones in their order.
sort_by_abs(pairs) ==
  Let([j \in DOMAIN pairs |->
         Cardinality({i \in DOMAIN pairs :
                        \/ FGt(pairs[i].corr.sq, pairs[j].corr.sq)
                        \/ (FEq(pairs[i].corr.sq, pairs[j].corr.sq) /\ i < j)})
           + 1], LAMBDA place :
    [p \in 1..Len(pairs) |-> pairs[CHOOSE j \in DOMAIN pairs : place[j] = p]])

\* What a call of correlation_heatmap gives: the message returned and the
\* plot files written.
HeatmapError(column_list, err) ==
  [res |-> [op |-> "heatmap", col |-> "", kind |-> "error", err |-> err,
            columns |-> column_list],
   written |-> {}]

\* The part of correlation_heatmap from the drawing on: the figure is
\* saved, then the pairs to list are collected, and the call returns an
\* error if there is none.
draw_and_report(column_list, numerical_df, matrix) ==
  Let(sort_by_abs(corr_pairs(numerical_df, matrix)), LAMBDA pairs :
    IF Len(pairs) = 0
    THEN [HeatmapError(column_list, "NoMeaningfulCorrelations")
            EXCEPT !.written = {"correlation_heatmap"}]
    ELSE [res |-> [op |-> "heatmap", col |-> "", kind |-> "success",
                   err |-> "none", columns |-> column_list,
                   filepath |-> "correlation_heatmap",
                   numerical_columns |-> Len(numerical_df),
                   top_correlations |->
                     SubSeq(pairs, 1, IF Len(pairs) < TopRows THEN Len(pairs)
                                      ELSE TopRows)],
          written |-> {"correlation_heatmap"}])

\* correlation_heatmap. column_list is the columns argument split at the
\* commas, <<>> for None and for the empty string.
correlation_heatmap(file, column_list) ==
  Let(load_dataset(file), LAMBDA l :
    IF l.kind # "table" THEN HeatmapError(column_list, l.err)
    ELSE IF \E k \in DOMAIN column_list : ~HasColumn(l.df, column_list[k])
    THEN [HeatmapError(column_list, "ColumnNotFound")
            EXCEPT !.res = [@ EXCEPT !.err = "ColumnNotFound"] @@
                           [available |-> columns(l.df)]]
    ELSE
    Let(IF Len(column_list) > 0
        THEN numeric_cols([k \in DOMAIN column_list |->
                             Column(l.df, column_list[k])])
        ELSE numeric_cols(l.df), LAMBDA numerical_df :
      \* DataFrame.empty: no column, or no row
      IF Len(numerical_df) = 0 \/ Len(numerical_df[1].cells) = 0
      THEN HeatmapError(column_list, "NoNumericalColumns")
      ELSE IF Len(numerical_df) < 2
      THEN HeatmapError(column_list, "TooFewNumericalColumns")
      ELSE IF Len(numerical_df[1].cells) < 3
      THEN HeatmapError(column_list, "InsufficientRows")
      ELSE
      Let(corr_matrix(numerical_df), LAMBDA matrix :
        IF \A i, j \in DOMAIN matrix : matrix[i][j].t = "nan"
        THEN HeatmapError(column_list, "AllNaN")
        ELSE IF \A i, j \in DOMAIN matrix :
                  matrix[i][j].t = "num" /\ matrix[i][j].sgn = 0
        THEN HeatmapError(column_list, "AllZeroOrNaN")
        ELSE IF \E j \in DOMAIN numerical_df : nunique(numerical_df[j]) <= 1
        THEN [HeatmapError(column_list, "ConstantColumns")
                EXCEPT !.res = @ @@
                  [constant_columns |->
                     columns(SelectSeq(numerical_df,
                                       LAMBDA c : nunique(c) <= 1))]]
        ELSE draw_and_report(column_list, numerical_df, matrix))))

\* -------------------------------------------------------------- operations
\* No caller of the two-caller specification.
NoCallers == <<>>

Init ==
  /\ fs \in Files
  /\ result = NoResult
  /\ callers = NoCallers
  /\ plots = NoPlots

\* A caller loads the file.
LoadDataset ==
  /\ result = NoResult
  /\ result' = Let(load_dataset(fs), LAMBDA r :
                 [op |-> "load", col |-> "", kind |-> r.kind, err |-> r.err,
                  df |-> r.df, parser |-> r.parser, sep |-> r.sep,
                  accessed |-> r.accessed])
  /\ UNCHANGED <<fs, callers, plots>>

\* A caller asks for the summary of the file.
DatasetSummary ==
  /\ result = NoResult
  /\ result' = dataset_summary(fs)
  /\ UNCHANGED <<fs, callers, plots>>

\* The column names a caller may pass: those of the files and one more.
ColumnArgs == {ColNames[j] : j \in DOMAIN ColNames} \cup {AbsentName}

\* A caller asks for the unique-value breakdown of a column.
UniqueValues ==
  /\ result = NoResult
  /\ \E column_name \in ColumnArgs, tie_order \in TieOrders :
       result' = analyze_column_unique_values(fs, column_name, tie_order)
  /\ UNCHANGED <<fs, callers, plots>>

\* A caller asks for the mean of a column.
ColumnMean ==
  /\ result = NoResult
  /\ \E column_name \in ColumnArgs :
       result' = calculate_column_mean(fs, column_name)
  /\ UNCHANGED <<fs, callers, plots>>

\* A caller asks for the standard deviation of a column.
ColumnStd ==
  /\ result = NoResult
  /\ \E column_name \in ColumnArgs :
       result' = calculate_column_std(fs, column_name)
  /\ UNCHANGED <<fs, callers, plots>>

\* A caller asks for the skewness analysis of a column.
ColumnSkewness ==
  /\ result = NoResult
  /\ \E column_name \in ColumnArgs, bool_quantile \in BoolQuantile :
       result' = analyze_column_skewness(fs, column_name, bool_quantile)
  /\ UNCHANGED <<fs, callers, plots>>

Next ==
  \/ LoadDataset
  \/ DatasetSummary
  \/ UniqueValues
  \/ ColumnMean
  \/ ColumnStd
  \/ ColumnSkewness

Spec == Init /\ [][Next]_vars

\* -------------------------------------------------------------- tall files
\* The cells of a tall column: the values 1..distinct, then repeat further
\* occurrences of the last value, then gaps missing values.
TallCells(distinct, repeat, gaps) ==
  [i \in 1..distinct |-> NumCell(i)]
  \o [i \in 1..repeat |-> NumCell(distinct)]
  \o [i \in 1..gaps |-> NullCell]

\* Comma-separated files of one column with up to MaxDistinct distinct
\* values.
TallFiles ==
  { [path |-> <<"data", ".csv">>, status |-> "ok", sep |-> ",",
     cols |-> Table(TallCells(x[1], x[2], x[3]), "", 1, NullCell, FALSE)]
      : x \in (1..MaxDistinct) \X (0..MaxRepeat) \X {0, 1} }

InitTall ==
  /\ fs \in TallFiles
  /\ result = NoResult
  /\ callers = NoCallers
  /\ plots = NoPlots

\* The unique-value breakdown of the column of a tall file.
NextTall == UniqueValues

SpecTall == InitTall /\ [][NextTall]_vars

\* ---------------------------------------------------------------- plotting
\* The files correlation_heatmap is called on: comma-separated text of two
\* columns and rows - 1 or rows rows, the second column of numbers, and
\* the paths with nothing readable.
PlotSecondCells == {NullCell, NumCell(0), NumCell(1)}

PlotFiles(rows) ==
  { [path |-> <<"data", ".csv">>, status |-> "ok", sep |-> ",",
     cols |-> <<[name |-> ColNames[1], decl |-> "", cells |-> x[1]],
                [name |-> ColNames[2], decl |-> "", cells |-> x[2]]>>]
      : x \in UNION { ColumnContents(n) \X SeqsOfLen(PlotSecondCells, n)
                        : n \in (rows - 1)..rows } }
  \cup {f \in Files : f.cols = NoContent}

\* The columns argument a caller passes: none, both columns, one column,
\* a column the file does not have.
PlotColumnArgs ==
  {<<>>, <<ColNames[1], ColNames[2]>>, <<ColNames[1]>>,
   <<ColNames[1], AbsentName>>}

InitPlot ==
  /\ fs \in PlotFiles(MaxPlotRows)
  /\ result = NoResult
  /\ callers = NoCallers
  /\ plots = NoPlots

\* A caller asks for the correlation heatmap of the file.
CorrelationHeatmap ==
  /\ result = NoResult
  /\ \E column_list \in PlotColumnArgs :
       \E r \in {correlation_heatmap(fs, column_list)} :
         /\ result' = r.res
         /\ plots' = plots \cup r.written
  /\ UNCHANGED <<fs, callers>>

NextPlot == CorrelationHeatmap

SpecPlot == InitPlot /\ [][NextPlot]_vars

\* ------------------------------------------------------------ two callers
CallerIds == {1, 2}

\* The files the two callers work on: one column, few rows.
SharedFiles ==
  {f \in Files :
     \/ f.cols = NoContent
     \/ (Len(f.cols) = 1 /\ Len(f.cols[1].cells) <= MaxSharedRows)}

\* The five core operations and the column name a caller passes.
CoreOps == {"summary", "unique", "mean", "std", "skewness"}
SharedColumnArgs == {ColNames[1]}

\* The library builds a process can run with.
Builds == [bool_quantile : BoolQuantile, tie_order : TieOrders]

\* The source file after a call has read it, with an exclusive lock left on
\* it.
file_after_read_locked(file) ==
  IF file.status = "ok" THEN [file EXCEPT !.status = "denied"] ELSE file

\* The source file after a call has read it, emptied by the read.
file_after_read_emptied(file) ==
  IF file.status = "ok"
  THEN [file EXCEPT !.status = "empty", !.cols = NoContent]
  ELSE file

\* The source file after a call has read it: open(file_path, 'r'),
\* pd.read_csv and pd.read_parquet only read.
file_after_read(file) == file

\* The operation op on the file as read.
run(op, file, column_name, build) ==
  CASE op = "summary" -> dataset_summary(file)
    [] op = "unique" ->
         analyze_column_unique_values(file, column_name, build.tie_order)
    [] op = "mean" -> calculate_column_mean(file, column_name)
    [] op = "std" -> calculate_column_std(file, column_name)
    [] OTHER -> analyze_column_skewness(file, column_name, build.bool_quantile)

IdleCaller ==
  [pc |-> "idle", op |-> "none", col |-> "", seen |-> NoContent,
   out |-> NoResult, overlap |-> FALSE]

InitCallers ==
  /\ fs \in SharedFiles
  /\ result = NoResult
  /\ callers \in {[build |-> b, c |-> [id \in CallerIds |-> IdleCaller]]
                    : b \in Builds}
  /\ plots = NoPlots

\* A caller starts an operation: load_dataset reads the file. overlap
\* records that another caller was between its read and its return.
CallerRead(id) ==
  /\ callers.c[id].pc = "idle"
  /\ \E op \in CoreOps, column_name \in SharedColumnArgs :
       /\ (op = "summary") => (column_name = ColNames[1])
       /\ callers' =
            [callers EXCEPT !.c[id] =
               [pc |-> "loaded", op |-> op,
                col |-> IF op = "summary" THEN "" ELSE column_name,
                seen |-> fs, out |-> NoResult,
                overlap |-> \E o \in CallerIds \ {id} :
                              callers.c[o].pc = "loaded"]]
  /\ fs' = file_after_read(fs)
  /\ UNCHANGED <<result, plots>>

\* The caller's operation computes on what it read and returns.
CallerReturn(id) ==
  /\ callers.c[id].pc = "loaded"
  /\ callers' =
       [callers EXCEPT !.c[id].pc = "done",
                       !.c[id].out = run(callers.c[id].op, callers.c[id].seen,
                                         callers.c[id].col, callers.build)]
  /\ UNCHANGED <<fs, result, plots>>

NextCallers ==
  \E id \in CallerIds :
    \/ CallerRead(id)
    \/ CallerReturn(id)

SpecCallers == InitCallers /\ [][NextCallers]_vars

\* ------------------------------------------------------------------ claims
StatOps == {"mean", "std", "skewness"}

\* The table the call's file loads to, and the column the call names.
Loaded == load_dataset(fs).kind = "table"
LoadedTable == load_dataset(fs).df
ColumnExists ==
  Let(load_dataset(fs), LAMBDA l :
    l.kind = "table" /\ HasColumn(l.df, result.col))
TargetColumn == Column(LoadedTable, result.col)

\* The number of non-missing cells of the target column, counted directly.
NonMissingOf(col) ==
  Cardinality({i \in DOMAIN col.cells : ~IsNull(col.cells[i])})

NonMissing == Let(TargetColumn, LAMBDA col : NonMissingOf(col))

\* C1: the unique-value breakdown returns a report or an error message for
\* every loadable table and every column that exists in it, also when the
\* column has no non-missing value; no exception leaves it.
C1_UniqueValuesNeverFaults ==
  (result.op = "unique" /\ ColumnExists) => result.kind \in {"report", "error"}

\* C2: dataset_summary returns a report or an error message for every input
\* file, also for an empty file and for a header line with zero data rows;
\* no exception leaves it.
C2_SummaryNeverFaults ==
  result.op = "summary" => result.kind \in {"report", "error"}

SupportedPath == EndsWith(fs.path, ".csv") \/ EndsWith(fs.path, ".parquet")

\* C3 as stated: for every path, load_dataset returns a table or an error
\* message; a missing file gives the not-found error, an unreadable file the
\* permission-denied error, any other read or parse failure the generic
\* load error.
C3_EveryPathAsStated ==
  result.op = "load" =>
    /\ result.kind \in {"table", "error"}
    /\ fs.status = "missing" => result.err = "FileNotFound"
    /\ fs.status = "denied" => result.err = "PermissionDenied"
    /\ fs.status \in {"malformed", "empty"} => result.err = "LoadError"

\* C3 amended: load_dataset returns a table or an error message for every
\* path and no exception leaves it; for a path ending in .csv or .parquet a
\* missing file gives the not-found error, an unreadable file the
\* permission-denied error, any other read or parse failure the generic
\* load error, and a readable well-formed file the table.
C3_LoadNeverRaises ==
  result.op = "load" =>
    /\ result.kind \in {"table", "error"}
    /\ SupportedPath =>
         /\ fs.status = "missing" => result.err = "FileNotFound"
         /\ fs.status = "denied" => result.err = "PermissionDenied"
         /\ fs.status \in {"malformed", "empty"} => result.err = "LoadError"
         /\ fs.status = "ok" => result.kind = "table"
    /\ result.kind = "error" <=> result.err # "none"

\* A parse failure of a delimited-text file came back as the generic load
\* error.
C3_Witness ==
  /\ result.op = "load"
  /\ EndsWith(fs.path, ".csv")
  /\ fs.status = "empty"
  /\ result.kind = "error"
  /\ result.err = "LoadError"

\* The fields of a report that hold a statistic or a report section.
ReportFields ==
  {"mean", "median", "std_squared", "variance", "cv", "skewness", "kurtosis",
   "minimum", "maximum", "range", "p25", "p50", "p75", "distribution",
   "variability", "skew_label", "kurtosis_label", "valid_rows", "total_rows"}

\* C4: Mean, Standard deviation and Skewness check in the order load,
\* column exists, column is numeric; the first failing check decides the
\* error, and an error carries no statistic and no report section.
C4_CheckOrder ==
  result.op \in StatOps =>
    Let(load_dataset(fs), LAMBDA l :
      /\ l.kind # "table" =>
           /\ result.kind = "error"
           /\ result.err = l.err
      /\ (l.kind = "table" /\ ~HasColumn(l.df, result.col)) =>
           /\ result.kind = "error"
           /\ result.err = "ColumnNotFound"
      /\ (l.kind = "table" /\ HasColumn(l.df, result.col)) =>
           Let(Column(l.df, result.col), LAMBDA col :
             /\ ~is_numeric_dtype(col.dtype) =>
                  /\ result.kind = "error"
                  /\ result.err = "NotNumeric"
             /\ is_numeric_dtype(col.dtype) => result.kind # "error")
      /\ result.kind = "error" => DOMAIN result \cap ReportFields = {})

\* A call whose file is missing and whose column no file has: the load
\* error is the one returned.
C4_Witness ==
  /\ result.op \in StatOps
  /\ result.col = AbsentName
  /\ fs.status = "missing"
  /\ result.kind = "error"
  /\ result.err = "FileNotFound"

\* C5: in the unique-value breakdown the percentages of all rows of the
\* table, the null bucket included, sum to 100.00 up to the rounding of
\* each row, and so does the cumulative percentage of the last row.
C5_PercentagesSumTo100 ==
  (result.op = "unique" /\ result.kind = "report") =>
    LET total == SumPct([j \in DOMAIN result.rows |-> result.rows[j].pct],
                        Len(result.rows))
    IN  /\ 2 * Abs(total - 10000) <= Len(result.rows)
        /\ result.rows[Len(result.rows)].cumulative = total

\* C6: when the analysed column has missing values, the breakdown has a
\* row labelled "NULL/NaN" that counts them, and the missing-values line
\* gives their count.
C6_NullBucketRow ==
  (result.op = "unique" /\ result.kind = "report" /\ NonMissing < Len(TargetColumn.cells)) =>
    /\ \E j \in DOMAIN result.rows :
         /\ result.rows[j].display = "NULL/NaN"
         /\ result.rows[j].count = Len(TargetColumn.cells) - NonMissing
    /\ result.missing_line = "count"
    /\ result.null_count = Len(TargetColumn.cells) - NonMissing

\* C7: in every Mean, Standard deviation and Skewness report,
\* valid_rows + missing_count = total_rows, valid_rows >= 0, and valid_rows
\* is the number of non-missing values the statistics were computed over.
C7_ValidRows ==
  (result.op \in StatOps /\ result.kind = "report") =>
    /\ result.valid_rows + result.null_count = result.total_rows
    /\ result.valid_rows >= 0
    /\ result.valid_rows = result.values_used
    /\ Let(TargetColumn, LAMBDA col :
           /\ result.total_rows = Len(col.cells)
           /\ result.valid_rows = NonMissingOf(col))

\* A report on a column with both missing and valid values.
C7_Witness ==
  /\ result.op \in StatOps
  /\ result.kind = "report"
  /\ result.null_count > 0
  /\ result.valid_rows > 0

\* Every row of the target column holds the same number.
SingleValueColumn ==
  /\ ColumnExists
  /\ Let(TargetColumn, LAMBDA col :
         /\ Len(col.cells) >= 1
         /\ col.cells[1].k = "num"
         /\ \A i \in DOMAIN col.cells : col.cells[i] = col.cells[1])

\* C8: for a numeric column whose N >= 1 rows are all the same number,
\* Standard deviation reports 0.0000 and Skewness returns a report.
C8_SingleValueColumn ==
  /\ (result.op = "std" /\ SingleValueColumn) =>
       /\ result.kind = "report"
       /\ PrintsAsZero(result.std_squared)
  /\ (result.op = "skewness" /\ SingleValueColumn) => result.kind = "report"

\* The target column is numeric with at least one value and sum 0.
ZeroMeanColumn ==
  /\ ColumnExists
  /\ Let(TargetColumn, LAMBDA col :
         /\ is_number_dtype(col.dtype)
         /\ NonMissingOf(col) > 0
         /\ SumSeq(Valid(col.cells)) = 0)

\* C9: for a numeric column whose mean is exactly 0, Standard deviation
\* returns a report whose coefficient of variation is +inf, never NaN.
C9_ZeroMeanCv ==
  (result.op = "std" /\ ZeroMeanColumn) =>
    /\ result.kind = "report"
    /\ result.cv.t = "inf"

\* A report on a column of zeros only: standard deviation 0, mean 0.
C9_Witness ==
  /\ result.op = "std"
  /\ ZeroMeanColumn
  /\ result.kind = "report"
  /\ result.std_squared = Zero
  /\ result.cv.t = "inf"

\* A report shows NaN for its statistic.
ShowsNaN(r) ==
  CASE r.op = "mean" -> IsNaN(r.mean)
    [] r.op = "std" -> IsNaN(r.std_squared)
    [] r.op = "skewness" -> r.skewness.t = "nan"
    [] OTHER -> FALSE

\* C10: on a column with zero valid values (no rows, or all rows missing)
\* Mean, Standard deviation and Skewness each return an error message or a
\* report that shows NaN, none raises, and all three do the same.
C10_ZeroValidPolicy ==
  (result.op \in StatOps /\ ColumnExists /\ NonMissing = 0) =>
    /\ result.kind \in {"error", "report"}
    /\ result.kind = "report" => ShowsNaN(result)
    /\ \A r \in {calculate_column_mean(fs, result.col),
                 calculate_column_std(fs, result.col),
                 analyze_column_skewness(fs, result.col, "TypeError"),
                 analyze_column_skewness(fs, result.col, "interpolated")} :
         /\ r.kind = result.kind
         /\ r.err = result.err
         /\ r.kind = "report" => ShowsNaN(r)

\* A Skewness report on a column whose rows are all missing.
C10_Witness ==
  /\ result.op = "skewness"
  /\ ColumnExists
  /\ NonMissing = 0
  /\ Len(TargetColumn.cells) > 0
  /\ result.kind = "report"
  /\ ShowsNaN(result)

\* C11: for Mean, Standard deviation and Skewness, an existing column whose
\* type is not numeric (text, boolean or other) gives the NotNumeric error
\* that names the column and its type, and no statistic.
C11_NotNumeric ==
  (result.op \in StatOps /\ ColumnExists /\ ~is_number_dtype(TargetColumn.dtype)) =>
    /\ result.kind = "error"
    /\ result.err = "NotNumeric"
    /\ result.dtype = TargetColumn.dtype
    /\ DOMAIN result \cap ReportFields = {}

ColumnOps == StatOps \cup {"unique"}

\* C12: an analysis of a column name that is not in the table returns the
\* ColumnNotFound error with every column name of the table, each once, in
\* the table's order; a name that is in the table passes the validation.
C12_ColumnNotFoundListsAll ==
  result.op \in ColumnOps =>
    Let(load_dataset(fs), LAMBDA l :
      l.kind = "table" =>
        /\ ~HasColumn(l.df, result.col) =>
             /\ result.kind = "error"
             /\ result.err = "ColumnNotFound"
             /\ Len(result.available) = Len(l.df)
             /\ \A j \in 1..Len(l.df) : result.available[j] = l.df[j].name
             /\ \A i, j \in 1..Len(result.available) :
                  i # j => result.available[i] # result.available[j]
        /\ HasColumn(l.df, result.col) =>
             /\ validate_column_exists(l.df, result.col).ok
             /\ result.err # "ColumnNotFound")

\* The error of a call that names a column a two-column table does not have.
C12_Witness ==
  /\ result.op \in ColumnOps
  /\ result.col = AbsentName
  /\ result.kind = "error"
  /\ result.err = "ColumnNotFound"
  /\ result.available = ColNames

\* C13: load_dataset chooses the parser from the ending of the path alone:
\* .csv calls the delimited-text parser (once the file is open), .parquet
\* the columnar reader, and any other ending returns UnsupportedFormat with
\* no parser called.
C13_DispatchByExtension ==
  result.op = "load" =>
    /\ EndsWith(fs.path, ".csv") =>
         /\ result.parser \in {"read_csv", "none"}
         /\ result.parser = "read_csv" <=> open_exc(fs) = "none"
    /\ EndsWith(fs.path, ".parquet") => result.parser = "read_parquet"
    /\ ~SupportedPath =>
         /\ result.parser = "none"
         /\ result.kind = "error"
         /\ result.err = "UnsupportedFormat"

\* A readable file whose path ends in .csv.bak: no parser is called.
C13_Witness ==
  /\ result.op = "load"
  /\ fs.path = <<"data", ".csv", ".bak">>
  /\ fs.status = "ok"
  /\ result.parser = "none"
  /\ result.err = "UnsupportedFormat"

\* The columns of the file as written.
WrittenColumns ==
  [j \in 1..Len(fs.cols) |-> [name |-> fs.cols[j].name, cells |-> fs.cols[j].cells]]

LoadedColumns ==
  [j \in 1..Len(result.df) |-> [name |-> result.df[j].name, cells |-> result.df[j].cells]]

\* C14: a delimited-text file is parsed with ';' if and only if its first
\* line holds a semicolon, and with ',' otherwise, whatever the other lines
\* hold; a file written with the separator chosen loads with its columns.
C14_SeparatorFromFirstLine ==
  (result.op = "load" /\ result.parser = "read_csv") =>
    /\ Let(Contains(first_line(fs), ";"), LAMBDA semicolon :
           /\ result.sep = ";" <=> semicolon
           /\ result.sep = "," <=> ~semicolon)
    /\ (fs.status = "ok" /\ fs.sep = result.sep) =>
         /\ result.kind = "table"
         /\ LoadedColumns = WrittenColumns

\* A semicolon-separated file of two columns and at least one row, loaded
\* with its two columns.
C14_Witness ==
  /\ result.op = "load"
  /\ fs.status = "ok"
  /\ fs.sep = ";"
  /\ result.sep = ";"
  /\ Len(fs.cols) = 2
  /\ Len(fs.cols[1].cells) >= 1
  /\ columns(result.df) = ColNames

DistributionLabels == {"symmetric", "right-skewed", "left-skewed"}

\* C15 as stated: every Mean report carries one of the three distribution
\* labels: symmetric iff mean == median, right-skewed iff mean > median,
\* left-skewed iff mean < median.
C15_LabelIffAsStated ==
  (result.op = "mean" /\ result.kind = "report") =>
    /\ result.distribution \in DistributionLabels
    /\ result.distribution = "symmetric" <=> FEq(result.mean, result.median)
    /\ result.distribution = "right-skewed" <=> FGt(result.mean, result.median)
    /\ result.distribution = "left-skewed" <=> FLt(result.mean, result.median)

\* C15 amended: every Mean report carries one of the three labels:
\* symmetric iff mean == median, right-skewed iff mean > median, left-skewed
\* in every other case; the other case is mean < median when the column has
\* a valid value, and a mean and median that are NaN when it has none.
C15_DistributionLabel ==
  (result.op = "mean" /\ result.kind = "report") =>
    /\ result.distribution \in DistributionLabels
    /\ result.distribution = "symmetric" <=> FEq(result.mean, result.median)
    /\ result.distribution = "right-skewed" <=> FGt(result.mean, result.median)
    /\ result.distribution = "left-skewed" <=>
         (~FEq(result.mean, result.median) /\ ~FGt(result.mean, result.median))
    /\ result.values_used > 0 =>
         (result.distribution = "left-skewed" <=> FLt(result.mean, result.median))
    /\ result.values_used = 0 =>
         /\ IsNaN(result.mean)
         /\ IsNaN(result.median)
         /\ result.distribution = "left-skewed"

\* A Mean report on a column with no valid value: mean and median are NaN
\* and the label is left-skewed.
C15_Witness ==
  /\ result.op = "mean"
  /\ result.kind = "report"
  /\ result.values_used = 0
  /\ IsNaN(result.mean)
  /\ result.distribution = "left-skewed"

\* cv > c for a threshold c > 0: true for +inf, false for NaN and for every
\* cv <= 0.
CvAbove(cv, c) ==
  \/ cv.t = "inf"
  \/ /\ cv.t = "num"
     /\ cv.sgn > 0
     /\ cv.sq.n > c * c * cv.sq.d

\* C19: the Standard deviation report carries one variability label, decided
\* by CV alone: low iff CV < 15, moderate iff 15 <= CV <= 35, high iff
\* CV > 35.
C19_VariabilityLabel ==
  (result.op = "std" /\ result.kind = "report") =>
    /\ result.variability \in {"low", "moderate", "high"}
    /\ result.variability = "low" <=> RootBelow(result.cv, CvLow)
    /\ result.variability = "moderate" <=>
         /\ result.cv.t = "num"
         /\ ~RootBelow(result.cv, CvLow)
         /\ ~CvAbove(result.cv, CvModerate)
    /\ result.variability = "high" <=> CvAbove(result.cv, CvModerate)

\* C20: the skewness label follows the thresholds for every skewness s the
\* operation produces: approximately symmetric only when |s| < 0.5,
\* right-skewed only when s > 0.5, left-skewed only when s < -0.5.
C20_SkewnessLabel ==
  (result.op = "skewness" /\ result.kind = "report") =>
    /\ result.skew_label = "approximately symmetric" =>
         RootAbsBelow(result.skewness, 1, 2)
    /\ result.skew_label = "right-skewed" => RootAbove(result.skewness, 1, 2)
    /\ result.skew_label = "left-skewed" => RootBelowNeg(result.skewness, 1, 2)

\* The row at which a value is first encountered in the target column.
FirstRow(value) ==
  CHOOSE i \in DOMAIN TargetColumn.cells :
    /\ TargetColumn.cells[i] = value
    /\ \A h \in 1..(i - 1) : TargetColumn.cells[h] # value

\* C18: the rows of the unique-value table are in descending order of count,
\* rows of equal count in the order their values are first encountered in
\* the column; the most common value is the first row, the least common the
\* last.
C18_DescendingStableOrder ==
  (result.op = "unique" /\ result.kind = "report") =>
    /\ \A j \in 1..(Len(result.rows) - 1) :
         /\ result.rows[j].count >= result.rows[j + 1].count
         /\ result.rows[j].count = result.rows[j + 1].count =>
              FirstRow(result.rows[j].value) < FirstRow(result.rows[j + 1].value)
    /\ result.most_common = result.rows[1]
    /\ result.least_common = result.rows[Len(result.rows)]

C17_ConcurrentCallers ==
  callers # NoCallers =>
    \A id \in CallerIds :
      callers.c[id].pc = "done" =>
        callers.c[id].out =
          run(callers.c[id].op, fs, callers.c[id].col, callers.build)

\* Two callers with different operations, the second started while the
\* first was between its read and its return; both have their reports.
C17_Witness ==
  /\ callers # NoCallers
  /\ callers.c[1].pc = "done"
  /\ callers.c[2].pc = "done"
  /\ callers.c[2].overlap
  /\ callers.c[1].op = "unique"
  /\ callers.c[2].op = "mean"
  /\ callers.c[1].out.kind = "report"
  /\ callers.c[2].out.kind = "report"

\* C21: the kurtosis label follows the thresholds for every excess kurtosis
\* k the operation produces: mesokurtic only when |k| < 2, leptokurtic only
\* when k > 2, platykurtic only when k < -2.
C21_KurtosisLabel ==
  (result.op = "skewness" /\ result.kind = "report") =>
    /\ result.kurtosis_label = "mesokurtic" =>
         FLt(FAbs(result.kurtosis), Frac(2, 1))
    /\ result.kurtosis_label = "leptokurtic" =>
         FGt(result.kurtosis, Frac(2, 1))
    /\ result.kurtosis_label = "platykurtic" =>
         FLt(result.kurtosis, Frac(-2, 1))

\* qs <= -0.1, qs exactly 0.1, or qs undefined (NaN or infinite operands).
QsLeftCase(qs) ==
  \/ ~IsNum(qs)
  \/ FEq(qs, Frac(1, 10))
  \/ FLt(qs, Frac(-1, 10))
  \/ FEq(qs, Frac(-1, 10))

C23_ExcludedLine ==
  (result.op \in StatOps /\ result.kind = "report") =>
    Let(TargetColumn, LAMBDA col :
      Let(Len(col.cells) - NonMissingOf(col), LAMBDA missing_count :
        /\ result.excluded_line <=> missing_count > 0
        /\ result.excluded_line =>
             /\ result.excluded_count = missing_count
             /\ result.excluded_divisor = <<Len(col.cells)>>
             /\ result.excluded_pct = Percent(missing_count, Len(col.cells))
        /\ ~result.excluded_line => result.excluded_divisor = <<>>
        /\ \A i \in DOMAIN result.excluded_divisor :
             result.excluded_divisor[i] # 0))

\* A Skewness report on a column with a missing value carries the line.
C23_Witness ==
  /\ result.op = "skewness"
  /\ result.kind = "report"
  /\ result.null_count > 0
  /\ result.valid_rows > 0
  /\ result.excluded_line
  /\ result.excluded_count = result.null_count

\* The number of distinct non-missing values of the target column.
DistinctValues ==
  Let(TargetColumn, LAMBDA col :
    Cardinality({col.cells[i] : i \in DOMAIN col.cells} \ {NullCell}))

VarietyLabels == {"good variety", "moderate variety", "high variety"}

\* C24: the unique-value breakdown carries one variety label, decided by
\* the number d of distinct values: good variety iff d <= 10, moderate
\* variety iff 11 <= d <= 50, high variety iff d > 50.
C24_VarietyLabel ==
  (result.op = "unique" /\ result.kind = "report") =>
    Let(DistinctValues, LAMBDA d :
      /\ result.unique_values = d
      /\ result.variety \in VarietyLabels
      /\ result.variety = "good variety" <=> d <= 10
      /\ result.variety = "moderate variety" <=> (11 <= d /\ d <= 50)
      /\ result.variety = "high variety" <=> d > 50)

\* A breakdown of a column of 51 distinct values, labelled high variety.
C24_Witness ==
  /\ result.op = "unique"
  /\ result.kind = "report"
  /\ result.unique_values = 51
  /\ result.variety = "high variety"

\* C25: the breakdown carries the "top 5" table iff there are more than 10
\* distinct values; the table has 5 rows, the first 5 rows of the main
\* table in the same order, ranked 1 to 5.
C25_TopFive ==
  (result.op = "unique" /\ result.kind = "report") =>
    /\ result.top # <<>> <=> DistinctValues > 10
    /\ result.top # <<>> =>
         /\ Len(result.top) = 5
         /\ \A i \in 1..5 :
              /\ result.top[i].rank = i
              /\ result.top[i].value = result.rows[i].value
              /\ result.top[i].display = result.rows[i].display
              /\ result.top[i].count = result.rows[i].count
              /\ result.top[i].pct = result.rows[i].pct

\* A breakdown of a column of 11 distinct values, one of them occurring
\* twice, with its top 5 table.
C25_Witness ==
  /\ result.op = "unique"
  /\ result.kind = "report"
  /\ result.unique_values = 11
  /\ result.rows[1].count = 2
  /\ Len(result.top) = 5
  /\ result.top[1].count = 2

\* C26: on every table that loads, dataset_summary returns a report; the
\* report has the numeric-statistics section iff the table has a numeric
\* column, with one row per numeric column in table order, and its
\* data-type and missing-value tables have one row per column, in table
\* order.
C26_SummarySections ==
  result.op = "summary" =>
    Let(load_dataset(fs), LAMBDA l :
      l.kind = "table" =>
        /\ result.kind = "report"
        /\ result.numeric_section <=>
             \E j \in DOMAIN l.df : is_number_dtype(l.df[j].dtype)
        /\ [j \in DOMAIN result.numeric_stats |-> result.numeric_stats[j].name]
             = [j \in DOMAIN numeric_cols(l.df) |-> numeric_cols(l.df)[j].name]
        /\ ~result.numeric_section => result.numeric_stats = <<>>
        /\ [j \in DOMAIN result.dtypes |-> result.dtypes[j].name] = columns(l.df)
        /\ [j \in DOMAIN result.missing |-> result.missing[j].name] = columns(l.df))

\* C27: a call of correlation_heatmap that returned an error message has
\* written no plot file.
C27_ErrorWritesNoPlot ==
  (result.op = "heatmap" /\ result.kind = "error") => plots = NoPlots

\* The target column is numeric and holds at least two values, all the
\* same.
ConstantColumn ==
  /\ ColumnExists
  /\ Let(TargetColumn, LAMBDA col :
         /\ is_number_dtype(col.dtype)
         /\ NonMissingOf(col) >= 2
         /\ \A i, j \in DOMAIN col.cells :
              (~IsNull(col.cells[i]) /\ ~IsNull(col.cells[j])) =>
                col.cells[i] = col.cells[j])

\* C28: on a numeric column of at least two valid values that are all the
\* same, Standard deviation reports low variability, whatever the value.
C28_ConstantColumnLow ==
  (result.op = "std" /\ ConstantColumn) =>
    /\ result.kind = "report"
    /\ result.std_squared = Zero
    /\ result.variability = "low"

\* The file with every number of the column negated.
Negated(file, column_name) ==
  [file EXCEPT !.cols =
     [j \in DOMAIN file.cols |->
        IF file.cols[j].name # column_name THEN file.cols[j]
        ELSE [file.cols[j] EXCEPT !.cells =
                [i \in DOMAIN file.cols[j].cells |->
                   IF file.cols[j].cells[i].k = "num"
                   THEN NumCell(-file.cols[j].cells[i].i)
                   ELSE file.cols[j].cells[i]]]]]

\* C29: the Standard deviation report of a column and that of the negated
\* column carry the same variability label.
C29_LabelUnderNegation ==
  (result.op = "std" /\ result.kind = "report") =>
    Let(calculate_column_std(Negated(fs, result.col), result.col), LAMBDA r :
      /\ r.kind = "report"
      /\ r.std_squared = result.std_squared
      /\ r.variability = result.variability)

\* C30: load_dataset looks at the ending of the path before it touches the
\* file system: a path that ends in neither .csv nor .parquet returns
\* UnsupportedFormat with no call on the file system, whatever is at the
\* path, and FileNotFound and PermissionDenied are returned only for paths
\* that end in .csv or .parquet.
C30_ExtensionBeforeFileSystem ==
  result.op = "load" =>
    /\ ~SupportedPath =>
         /\ result.err = "UnsupportedFormat"
         /\ result.accessed = <<>>
    /\ SupportedPath => result.accessed # <<>>
    /\ result.err \in {"FileNotFound", "PermissionDenied"} =>
         /\ SupportedPath
         /\ fs.status \in {"missing", "denied"}

\* Nothing is at a path that ends in .txt: the call returns
\* UnsupportedFormat without a call on the file system.
C30_Witness ==
  /\ result.op = "load"
  /\ fs.path = <<"data", ".txt">>
  /\ fs.status = "missing"
  /\ result.err = "UnsupportedFormat"
  /\ result.accessed = <<>>

====
